---- MODULE Spec2Model ----
(***************************************************************************)
(* The contact-form submission pipeline of the repository: sanitizers,     *)
(* validators, the localStorage rate limiter and the submit state machine  *)
(* of the four SecureContactForm variants found in the sources:            *)
(*   "part_000"  src/unnamed/part_000          (rate limit, 9-digit phone) *)
(*   "part_001"  src/unnamed/part_001          (rate limit, +998 phone)    *)
(*   "first"     SecureContactForm.tsx 1-246   (device label)              *)
(*   "consent"   SecureContactForm.tsx 248-662 (consent, dual contact)     *)
(* Text is a sequence of one-character strings.                            *)
(***************************************************************************)
EXTENDS Integers, Sequences, FiniteSets, TLC

VARIABLES variant, formData, agree, errors, isSubmitting, submitted,
          store, now, calls, lastOp, ret, other

vars == <<variant, formData, agree, errors, isSubmitting, submitted,
          store, now, calls, lastOp, ret, other>>

Variants == {"part_000", "part_001", "first", "consent"}

\* The variants whose validateForm/handleSubmit use the rate limiter.
HasRateLimit(v) == v \in {"part_000", "part_001"}

-----------------------------------------------------------------------------
(* Character classes of the regular expressions.                           *)

Digit == {"0", "1", "2", "3", "4", "5", "6", "7", "8", "9"}

Letter == {"a", "b", "c", "d", "e", "f", "g", "h", "i", "j", "k", "l", "m",
           "n", "o", "p", "q", "r", "s", "t", "u", "v", "w", "x", "y", "z",
           "A", "B", "C", "D", "E", "F", "G", "H", "I", "J", "K", "L", "M",
           "N", "O", "P", "Q", "R", "S", "T", "U", "V", "W", "X", "Y", "Z"}

\* \w
WordChar == Letter \cup Digit \cup {"_"}

\* \s (the members the inputs use)
WhiteSpace == {" ", "\t", "\n"}

\* [<>[\]{}'"\\/|;:=]
DenyList == {"<", ">", "[", "]", "{", "}", "'", "\"", "\\", "/", "|", ";",
             ":", "="}

\* [\w@.+-]
EmailChar == WordChar \cup {"@", ".", "+", "-"}

-----------------------------------------------------------------------------
(* String helpers of the JavaScript runtime.                               *)

Min(a, b) == IF a < b THEN a ELSE b

\* String.prototype.slice(from, to) with 0-based, non-negative arguments.
Slice(s, from, to) == SubSeq(s, from + 1, Min(to, Len(s)))

RECURSIVE TrimStart(_)
TrimStart(s) ==
    IF s # <<>> /\ Head(s) \in WhiteSpace THEN TrimStart(Tail(s)) ELSE s

RECURSIVE TrimEnd(_)
TrimEnd(s) ==
    IF s # <<>> /\ s[Len(s)] \in WhiteSpace
    THEN TrimEnd(SubSeq(s, 1, Len(s) - 1))
    ELSE s

\* String.prototype.trim()
Trim(s) == TrimEnd(TrimStart(s))

\* value.replace(/[class]/g, "") : drop every character of the class
Strip(s, class) == SelectSeq(s, LAMBDA c : c \notin class)

\* value.replace(/[^class]/g, "") : keep only the characters of the class
Keep(s, class) == SelectSeq(s, LAMBDA c : c \in class)

-----------------------------------------------------------------------------
(* Sanitizers, per variant.                                                *)

\* sanitizeText whose replace lacks the g flag: the first match only
sanitizeTextFirstMatch(v, value) ==
    LET hits == {k \in 1..Len(value) : value[k] \in DenyList}
        cut == IF hits = {} THEN value
               ELSE LET k == CHOOSE h \in hits : \A g \in hits : h <= g
                    IN  SubSeq(value, 1, k - 1) \o SubSeq(value, k + 1, Len(value))
    IN  IF v \in {"part_000", "part_001"} THEN Trim(cut) ELSE cut

\* sanitizeText that trims and strips nothing
sanitizeTextTrimOnly(v, value) == Trim(value)

sanitizeText(v, value) ==
    IF v \in {"part_000", "part_001"}
    THEN Trim(Strip(value, DenyList))
    ELSE Strip(value, DenyList)

sanitizeEmail(value) == Trim(Keep(value, EmailChar))

PhoneLen == 9

sanitizePhone(v, value) ==
    IF v = "part_001"
    THEN Trim(Keep(value, Digit \cup {"+"}))
    ELSE Slice(Keep(value, Digit), 0, PhoneLen)

-----------------------------------------------------------------------------
(* Phone display formatting: formatUzPhone (part_000), formatPhone (both   *)
(* variants of SecureContactForm.tsx).                                     *)

\* formatPhone without the fourth group
formatPhoneThreeGroups(value) ==
    LET d == Keep(value, Digit)
    IN  IF Len(d) <= 2 THEN d
        ELSE IF Len(d) <= 5 THEN Slice(d, 0, 2) \o <<" ">> \o Slice(d, 2, Len(d))
        ELSE Slice(d, 0, 2) \o <<" ">> \o Slice(d, 2, 5) \o <<" ">>
                \o Slice(d, 5, Len(d))

formatPhone(value) ==
    LET d == Keep(value, Digit)
    IN  IF Len(d) <= 2 THEN d
        ELSE IF Len(d) <= 5 THEN Slice(d, 0, 2) \o <<" ">> \o Slice(d, 2, Len(d))
        ELSE IF Len(d) <= 7
        THEN Slice(d, 0, 2) \o <<" ">> \o Slice(d, 2, 5) \o <<" ">>
                \o Slice(d, 5, Len(d))
        ELSE Slice(d, 0, 2) \o <<" ">> \o Slice(d, 2, 5) \o <<" ">>
                \o Slice(d, 5, 7) \o <<" ">> \o Slice(d, 7, 9)

-----------------------------------------------------------------------------
(* Validators.                                                             *)

\* validateEmail whose pattern lacks the \.[^\s@]+ part
validateEmailNoDot(email) ==
    \E i \in 1..Len(email) :
        /\ email[i] = "@"
        /\ 1 < i
        /\ i < Len(email)
        /\ \A k \in 1..Len(email) :
              k # i => email[k] \notin WhiteSpace \cup {"@"}

\* /^[^\s@]+@[^\s@]+\.[^\s@]+$/
validateEmail(email) ==
    \E i \in 1..Len(email), j \in 1..Len(email) :
        /\ email[i] = "@"
        /\ email[j] = "."
        /\ 1 < i
        /\ i + 1 < j
        /\ j < Len(email)
        /\ \A k \in 1..Len(email) :
              k # i => email[k] \notin WhiteSpace \cup {"@"}

\* /^\d{9}$/ ; part_001: /^(998\d{9}|\d{9})$/ on the digits of the value ;
\* first variant: phone.length !== 9
validatePhone(v, phone) ==
    CASE v = "part_001" ->
           LET digits == Keep(phone, Digit)
           IN  \/ Len(digits) = PhoneLen
               \/ /\ Len(digits) = 3 + PhoneLen
                  /\ SubSeq(digits, 1, 3) = <<"9", "9", "8">>
      [] v = "first" -> Len(phone) = PhoneLen
      [] OTHER -> Len(phone) = PhoneLen /\ \A k \in 1..Len(phone) : phone[k] \in Digit

validateInput(value, max) == Len(value) > 1 /\ Len(value) <= max

NameMax == 100

MessageMax == 1000

MinName == 2

MinMessage == 2

MinMessageFirst == 5

-----------------------------------------------------------------------------
(* Rate limiter over the persisted list (localStorage).                    *)

WindowMs == 600000

RateLimit == 5

\* a filter that keeps every stored timestamp, however old
InWindowNeverExpires(v, t, x) == TRUE

\* part_000: now - t < 10 * 60 * 1000 ; part_001: now - t <= windowMs
InWindow(v, t, x) ==
    IF v = "part_000" THEN t - x < WindowMs ELSE t - x <= WindowMs

\* isRateLimited comparing with > 5
isRateLimitedOffByOne(v, list, t) ==
    Len(SelectSeq(list, LAMBDA x : InWindow(v, t, x))) > RateLimit

isRateLimited(v, list, t) ==
    Len(SelectSeq(list, LAMBDA x : InWindow(v, t, x))) >= RateLimit

\* recordSubmit that drops the expired timestamps before it writes
recordSubmitPruning(list, t) ==
    Append(SelectSeq(list, LAMBDA x : t - x < WindowMs), t)

\* recordSubmit that pushes to the parsed copy and never calls setItem
recordSubmitNotWritten(list, t) == list

recordSubmit(list, t) == Append(list, t)

-----------------------------------------------------------------------------
(* Maps with string keys: FormErrors and the URLSearchParams payload.      *)

EmptyMap == [k \in {} |-> "undefined"]

Put(m, k, val) ==
    [x \in DOMAIN m \cup {k} |-> IF x = k THEN val ELSE m[x]]

PutIf(cond, m, k, val) == IF cond THEN Put(m, k, val) ELSE m

\* Object.keys(e).length === 0
IsEmptyMap(m) == DOMAIN m = {}

-----------------------------------------------------------------------------
(* validateForm: the FormErrors map e of one validation pass.              *)

NameInvalid(v, fd) ==
    IF v \in {"part_000", "first"}
    THEN Len(fd.name) < MinName
    ELSE ~validateInput(fd.name, NameMax)

MessageInvalid(v, fd) ==
    CASE v = "part_000" -> Len(fd.message) < MinMessage
      [] v = "first" -> Len(fd.message) < MinMessageFirst
      [] OTHER -> ~validateInput(fd.message, MessageMax)

EmailInvalid(fd) == fd.email # <<>> /\ ~validateEmail(fd.email)

PhoneInvalid(v, fd) == fd.phone # <<>> /\ ~validatePhone(v, fd.phone)

NoContact(fd) == fd.email = <<>> /\ fd.phone = <<>>

\* validateForm of the consent variant (no rate limiter in this file).
validateFormConsent(fd, ag) ==
    LET v == "consent"
        e1 == PutIf(NameInvalid(v, fd), EmptyMap, "name", "t.errors.name")
        e2 == PutIf(MessageInvalid(v, fd), e1, "message", "t.errors.message")
        e3 == PutIf(NoContact(fd), e2, "email", "contactError")
        e4 == PutIf(NoContact(fd), e3, "phone", "contactError")
        e5 == PutIf(EmailInvalid(fd), e4, "email", "t.errors.email")
        e6 == PutIf(PhoneInvalid(v, fd), e5, "phone", "t.errors.phone")
    IN  PutIf(~ag, e6, "agree", "t.formPolicyError")

\* The field rules of validateForm in part_000, part_001 and the first
\* variant.
validateFormFields(v, fd) ==
    LET e1 == PutIf(NameInvalid(v, fd), EmptyMap, "name", "t.formInputName")
        e2 == PutIf(MessageInvalid(v, fd), e1, "message", "t.formInputMessage")
        e3 == PutIf(EmailInvalid(fd), e2, "email", "t.formInputMessage")
    IN  PutIf(PhoneInvalid(v, fd), e3, "phone", "t.formTelephone")

\* validateForm returning at the first failing rule
validateFormFirstErrorOnly(v, fd, ag, list, t) ==
    IF NameInvalid(v, fd)
    THEN Put(EmptyMap, "name", "t.formInputName")
    ELSE IF MessageInvalid(v, fd)
    THEN Put(EmptyMap, "message", "t.formInputMessage")
    ELSE IF v = "consent" /\ NoContact(fd)
    THEN Put(Put(EmptyMap, "email", "contactError"), "phone", "contactError")
    ELSE IF EmailInvalid(fd)
    THEN Put(EmptyMap, "email", "t.formInputMessage")
    ELSE IF PhoneInvalid(v, fd)
    THEN Put(EmptyMap, "phone", "t.formTelephone")
    ELSE IF HasRateLimit(v) /\ isRateLimited(v, list, t)
    THEN Put(EmptyMap, "submit", "t.formSendError")
    ELSE IF v = "consent" /\ ~ag
    THEN Put(EmptyMap, "agree", "t.formPolicyError")
    ELSE EmptyMap

\* validateForm without the if (!agree) block
validateFormNoAgree(v, fd, ag, list, t) ==
    IF v = "consent"
    THEN validateFormConsent(fd, TRUE)
    ELSE PutIf(HasRateLimit(v) /\ isRateLimited(v, list, t),
               validateFormFields(v, fd), "submit", "t.formSendError")

\* validateForm whose contact rule flags the email field only
validateFormContactOnEmail(v, fd, ag, list, t) ==
    IF v = "consent"
    THEN LET e1 == PutIf(NameInvalid(v, fd), EmptyMap, "name", "t.errors.name")
             e2 == PutIf(MessageInvalid(v, fd), e1, "message", "t.errors.message")
             e3 == PutIf(NoContact(fd), e2, "email", "contactError")
             e5 == PutIf(EmailInvalid(fd), e3, "email", "t.errors.email")
             e6 == PutIf(PhoneInvalid(v, fd), e5, "phone", "t.errors.phone")
         IN  PutIf(~ag, e6, "agree", "t.formPolicyError")
    ELSE PutIf(HasRateLimit(v) /\ isRateLimited(v, list, t),
               validateFormFields(v, fd), "submit", "t.formSendError")

\* validateForm without the isRateLimited() line
validateFormNoRateLimit(v, fd, ag, list, t) ==
    IF v = "consent"
    THEN validateFormConsent(fd, ag)
    ELSE validateFormFields(v, fd)

validateForm(v, fd, ag, list, t) ==
    IF v = "consent"
    THEN validateFormConsent(fd, ag)
    ELSE PutIf(HasRateLimit(v) /\ isRateLimited(v, list, t),
               validateFormFields(v, fd), "submit", "t.formSendError")

-----------------------------------------------------------------------------
(* Device label: getDeviceModel over the ambient environment env, a record *)
(* [ua, platform, dpr, width, height, maxTouchPoints, renderer]; renderer  *)
(* is the GPU renderer string, <<"null">> when WebGL gives none and        *)
(* <<"throws">> when reading it throws.                                    *)

UpperCase ==
    <<"A", "B", "C", "D", "E", "F", "G", "H", "I", "J", "K", "L", "M",
      "N", "O", "P", "Q", "R", "S", "T", "U", "V", "W", "X", "Y", "Z">>

LowerCase ==
    <<"a", "b", "c", "d", "e", "f", "g", "h", "i", "j", "k", "l", "m",
      "n", "o", "p", "q", "r", "s", "t", "u", "v", "w", "x", "y", "z">>

ToLower(c) ==
    IF c \in Letter /\ \E i \in 1..Len(UpperCase) : UpperCase[i] = c
    THEN LowerCase[CHOOSE i \in 1..Len(UpperCase) : UpperCase[i] = c]
    ELSE c

LowerStr(s) == [i \in 1..Len(s) |-> ToLower(s[i])]

\* pat occurs in s at position i
OccursAt(s, pat, i) ==
    i >= 1 /\ i + Len(pat) - 1 <= Len(s) /\ SubSeq(s, i, i + Len(pat) - 1) = pat

\* String.prototype.includes(pat) ; /pat/.test(s)
Includes(s, pat) == \E i \in 1..Len(s) : OccursAt(s, pat, i)

\* /pat/i.test(s)
TestI(s, pat) ==
    LET ls == LowerStr(s)
        lp == LowerStr(pat)
    IN  \E i \in 1..(Len(ls) - Len(lp) + 1) : SubSeq(ls, i, i + Len(lp) - 1) = lp

\* s.replace("pat", "") : the first occurrence only
ReplaceFirst(s, pat) ==
    IF Includes(s, pat)
    THEN LET i == CHOOSE k \in 1..Len(s) :
                    OccursAt(s, pat, k) /\ \A m \in 1..(k - 1) : ~OccursAt(s, pat, m)
         IN  SubSeq(s, 1, i - 1) \o SubSeq(s, i + Len(pat), Len(s))
    ELSE s

\* "Android"
P_Android ==
    <<"A", "n", "d", "r", "o", "i", "d">>

\* "Windows"
P_Windows ==
    <<"W", "i", "n", "d", "o", "w", "s">>

\* "Mobi"
P_Mobi ==
    <<"M", "o", "b", "i">>

\* "iPad"
P_iPad ==
    <<"i", "P", "a", "d">>

\* "iPhone"
P_iPhone ==
    <<"i", "P", "h", "o", "n", "e">>

\* "Build"
P_Build ==
    <<"B", "u", "i", "l", "d">>

\* ua.match(/Android.*; ([^;)]+)/i) : the positions p of a "; " that follows
\* "Android" and is followed by a character other than ';' and ')'
AndroidSeps(ua) ==
    LET lower == LowerStr(ua)
        pat == LowerStr(P_Android)
        starts == { a \in 1..Len(ua) : OccursAt(lower, pat, a) }
    IN  { p \in 1..Len(ua) :
            /\ p + 2 <= Len(ua)
            /\ ua[p] = ";"
            /\ ua[p + 1] = " "
            /\ ua[p + 2] \notin {";", ")"}
            /\ \E a \in starts : a + Len(P_Android) <= p }

\* match[1]: the greedy .* takes the last such "; ", [^;)]+ the longest run
AndroidCapture(ua) ==
    LET seps == AndroidSeps(ua)
        p == CHOOSE q \in seps : \A r \in seps : r <= q
        stop == { k \in (p + 2)..Len(ua) : ua[k] \in {";", ")"} }
        last == IF stop = {} THEN Len(ua)
                ELSE (CHOOSE k \in stop : \A m \in stop : k <= m) - 1
    IN  SubSeq(ua, p + 2, last)

Lookup(map, w, h, default) ==
    IF \E e \in map : e[1] = w /\ e[2] = h
    THEN (CHOOSE e \in map : e[1] = w /\ e[2] = h)[3]
    ELSE default

\* isIOS && !isIPad && isMobile
iPhoneMap ==
    { \* <<width, height, label>>
      <<1290, 2796, <<"i", "P", "h", "o", "n", "e", " ", "1", "5", "-", "1", "6", "-", "1", "7", " ", "P", "r", "o", " ", "M", "a", "x">>>>,
      <<1179, 2556, <<"i", "P", "h", "o", "n", "e", " ", "1", "5", "-", "1", "6", " ", "P", "r", "o">>>>,
      <<1170, 2532, <<"i", "P", "h", "o", "n", "e", " ", "1", "3", "-", "1", "4", "-", "1", "5">>>>,
      <<1284, 2778, <<"i", "P", "h", "o", "n", "e", " ", "1", "1", "-", "1", "2", "-", "1", "3", "-", "1", "4", " ", "P", "r", "o", " ", "M", "a", "x">>>>,
      <<1792, 828, <<"i", "P", "h", "o", "n", "e", " ", "(", "X", "R", "-", "1", "1", ")">>>>,
      <<1334, 750, <<"i", "P", "h", "o", "n", "e", " ", "(", "6", "-", "7", "-", "8", ")">>>>,
      <<1080, 2340, <<"i", "P", "h", "o", "n", "e", " ", "1", "3", " ", "m", "i", "n", "i">>>>,
      <<750, 1334, <<"i", "P", "h", "o", "n", "e", " ", "S", "E", " ", "(", "2", "0", "2", "2", "/", "2", "0", "2", "4", ")">>>> }

\* isIPad
iPadMap ==
    { \* <<width, height, label>>
      <<2208, 3200, <<"i", "P", "a", "d", " ", "P", "r", "o", " ", "M", "4", " ", "1", "3", "\"">>>>,
      <<2156, 3036, <<"i", "P", "a", "d", " ", "P", "r", "o", " ", "M", "4", " ", "1", "1", "\"">>>>,
      <<2048, 2732, <<"i", "P", "a", "d", " ", "P", "r", "o", " ", "1", "2", ".", "9", "\"">>>>,
      <<1668, 2388, <<"i", "P", "a", "d", " ", "P", "r", "o", " ", "1", "1", "\"">>>>,
      <<1640, 2360, <<"i", "P", "a", "d", " ", "A", "i", "r", " ", "M", "2">>>>,
      <<1620, 2160, <<"i", "P", "a", "d", " ", "1", "0", " ", "/", " ", "1", "1">>>>,
      <<1488, 2266, <<"i", "P", "a", "d", " ", "m", "i", "n", "i">>>> }

\* isMac && !isMobile
MacMap ==
    { \* <<width, height, label>>
      <<3456, 2234, <<"M", "a", "c", "B", "o", "o", "k", " ", "P", "r", "o", " ", "1", "6", "\"">>>>,
      <<3024, 1964, <<"M", "a", "c", "B", "o", "o", "k", " ", "P", "r", "o", " ", "1", "6", "\"">>>>,
      <<3024, 1890, <<"M", "a", "c", "B", "o", "o", "k", " ", "P", "r", "o", " ", "1", "4", "\"">>>>,
      <<2880, 1800, <<"M", "a", "c", "B", "o", "o", "k", " ", "P", "r", "o", " ", "1", "4", "\"">>>>,
      <<2880, 1864, <<"M", "a", "c", "B", "o", "o", "k", " ", "A", "i", "r", " ", "1", "5", "\"">>>>,
      <<2560, 1664, <<"M", "a", "c", "B", "o", "o", "k", " ", "A", "i", "r", " ", "1", "3", "\"">>>> }

\* MacChip without the try/catch: the failure leaves getDeviceModel
MacChipUncaught(renderer) ==
    IF renderer = <<"throws">> THEN <<"#", "t", "h", "r", "o", "w", "n">>
    ELSE IF renderer = <<"null">> THEN <<>>
    ELSE IF Includes(renderer, <<"M", "3">>) THEN <<" ", "M", "3">>
    ELSE IF Includes(renderer, <<"M", "2">>) THEN <<" ", "M", "2">>
    ELSE IF Includes(renderer, <<"M", "1">>) THEN <<" ", "M", "1">>
    ELSE <<>>

\* The chip suffix read from the WebGL renderer string inside try/catch.
MacChip(renderer) ==
    IF renderer \in {<<"throws">>, <<"null">>} THEN <<>>
    ELSE IF Includes(renderer, <<"M", "3">>) THEN <<" ", "M", "3">>
    ELSE IF Includes(renderer, <<"M", "2">>) THEN <<" ", "M", "2">>
    ELSE IF Includes(renderer, <<"M", "1">>) THEN <<" ", "M", "1">>
    ELSE <<>>

\* SecureContactForm.tsx, first variant
getDeviceModelFirst(env) ==
    IF TestI(env.ua, P_iPhone)
    THEN <<"i", "P", "h", "o", "n", "e", " ", "(", "i", "O", "S", ")">>
    ELSE IF TestI(env.ua, P_Android)
    THEN IF TestI(env.ua, <<"S", "a", "m", "s", "u", "n", "g">>)
         THEN <<"S", "a", "m", "s", "u", "n", "g", " ", "(", "A", "n", "d", "r", "o", "i", "d", ")">>
         ELSE IF \/ TestI(env.ua, <<"X", "i", "a", "o", "m", "i">>)
                 \/ TestI(env.ua, <<"M", "i">>)
                 \/ TestI(env.ua, <<"R", "e", "d", "m", "i">>)
         THEN <<"X", "i", "a", "o", "m", "i", " ", "(", "A", "n", "d", "r", "o", "i", "d", ")">>
         ELSE IF TestI(env.ua, <<"P", "i", "x", "e", "l">>)
         THEN <<"G", "o", "o", "g", "l", "e", " ", "P", "i", "x", "e", "l", " ", "(", "A", "n", "d", "r", "o", "i", "d", ")">>
         ELSE <<"A", "n", "d", "r", "o", "i", "d", " ", "p", "h", "o", "n", "e">>
    ELSE IF TestI(env.ua, <<"M", "a", "c", "i", "n", "t", "o", "s", "h">>)
    THEN <<"M", "a", "c", "B", "o", "o", "k", " ", "/", " ", "m", "a", "c", "O", "S">>
    ELSE IF TestI(env.ua, P_Windows)
    THEN <<"W", "i", "n", "d", "o", "w", "s", " ", "P", "C">>
    ELSE <<"U", "n", "k", "n", "o", "w", "n", " ", "d", "e", "v", "i", "c", "e">>

\* SecureContactForm.tsx, consent variant
getDeviceModelConsent(env) ==
    LET w == env.width * env.dpr
        h == env.height * env.dpr
        isIOS == TestI(env.ua, P_iPhone) \/ TestI(env.ua, P_iPad)
                   \/ TestI(env.ua, <<"i", "P", "o", "d">>)
        isMac == TestI(env.platform, <<"M", "a", "c">>)
        isIPad == TestI(env.ua, P_iPad) \/ (isMac /\ env.maxTouchPoints > 1)
        isMobile == TestI(env.ua, P_Mobi)
    IN  IF isIOS /\ ~isIPad /\ isMobile
        THEN Lookup(iPhoneMap, w, h, <<"i", "P", "h", "o", "n", "e">>)
        ELSE IF isIPad
        THEN Lookup(iPadMap, w, h, <<"i", "P", "a", "d">>)
        ELSE IF isMac /\ ~isMobile
        THEN Lookup(MacMap, w, h, <<"M", "a", "c">>) \o MacChip(env.renderer)
        ELSE IF TestI(env.ua, P_Android)
        THEN IF AndroidSeps(env.ua) # {}
             THEN Trim(ReplaceFirst(AndroidCapture(env.ua), P_Build))
             ELSE <<"A", "n", "d", "r", "o", "i", "d", " ", "P", "h", "o", "n", "e">>
        ELSE IF TestI(env.ua, P_Windows)
        THEN <<"W", "i", "n", "d", "o", "w", "s", " ", "P", "C">>
        ELSE IF TestI(env.ua, <<"L", "i", "n", "u", "x">>)
        THEN <<"L", "i", "n", "u", "x", " ", "P", "C">>
        ELSE IF isMobile
        THEN <<"M", "o", "b", "i", "l", "e", " ", "D", "e", "v", "i", "c", "e">>
        ELSE <<"D", "e", "s", "k", "t", "o", "p", " ", "D", "e", "v", "i", "c", "e">>

\* getDeviceModel() ; the first variant sends getDeviceModel() || "Unknown device"
getDeviceModel(v, env) ==
    IF v = "first"
    THEN LET d == getDeviceModelFirst(env)
         IN  IF d = <<>> THEN <<"U", "n", "k", "n", "o", "w", "n", " ", "d", "e", "v", "i", "c", "e">> ELSE d
    ELSE getDeviceModelConsent(env)

-----------------------------------------------------------------------------
(* The payload handed to fetch (URLSearchParams).                          *)

\* "+998"
CountryPrefix == <<"+", "9", "9", "8">>

buildPayload(v, fd, env) ==
    LET base == Put(Put(Put(EmptyMap, "name", fd.name), "email", fd.email),
                    "message", fd.message)
    IN  CASE v = "part_000" ->
               Put(base, "phone",
                   IF fd.phone # <<>> THEN CountryPrefix \o fd.phone ELSE <<>>)
          [] v = "part_001" ->
               PutIf(fd.phone # <<>>, base, "phone", fd.phone)
          [] OTHER ->
               Put(PutIf(fd.phone # <<>>, base, "phone", CountryPrefix \o fd.phone),
                   "device", getDeviceModel(v, env))

-----------------------------------------------------------------------------
(* Bounds and the inputs the actions draw from.                            *)

\* The clock advances MaxTicks times at most.
MaxTicks == 2

\* The persisted list grows to MaxStore entries at most.
MaxStore == 6

\* One clock step: Date.now() advances by the length of the window.
TickMs == WindowMs

\* Raw values typed or pasted into the name field: "a", "<ab "
NameInputs == {<<"a">>, <<"<", "a", "b", " ">>}

\* Raw values of the message field: " h=ello"
MessageInputs == {<<" ", "h", "=", "e", "l", "l", "o">>}

\* Raw values of the email field: "", "a@b", " a@b.co!"
EmailInputs == {<<>>, <<"a", "@", "b">>, <<" ", "a", "@", "b", ".", "c", "o", "!">>}

\* Raw values of the phone field: "", "12345", "+998 90 123 45 67"
PhoneInputs == {<<>>, <<"1", "2", "3", "4", "5">>, <<"+", "9", "9", "8", " ", "9", "0", " ", "1", "2", "3", " ", "4", "5", " ", "6", "7">>}

RawInputs(field) ==
    CASE field = "name" -> NameInputs
      [] field = "message" -> MessageInputs
      [] field = "email" -> EmailInputs
      [] field = "phone" -> PhoneInputs

Fields == {"name", "email", "message", "phone"}

\* navigator / screen / WebGL signals of four clients
EnvSamsung ==
    [ua |-> <<"(", "L", "i", "n", "u", "x", ";", " ", "A", "n", "d", "r", "o", "i", "d", " ", "1", "3", ";", " ", "S", "a", "m", "s", "u", "n", "g", " ", "S", "M", "-", "G", "9", "9", "1", "B", " ", "B", "u", "i", "l", "d", "/", "T", "P", "1", "A", ")", " ", "M", "o", "b", "i", "l", "e">>,
     platform |-> <<"L", "i", "n", "u", "x", " ", "a", "r", "m", "v", "8", "l">>,
     dpr |-> 3, width |-> 360, height |-> 780, maxTouchPoints |-> 5,
     renderer |-> <<"null">>]

EnvMacM2 ==
    [ua |-> <<"(", "M", "a", "c", "i", "n", "t", "o", "s", "h", ";", " ", "I", "n", "t", "e", "l", " ", "M", "a", "c", " ", "O", "S", " ", "X", " ", "1", "0", "_", "1", "5", ")">>,
     platform |-> <<"M", "a", "c", "I", "n", "t", "e", "l">>,
     dpr |-> 2, width |-> 1280, height |-> 832, maxTouchPoints |-> 0,
     renderer |-> <<"A", "p", "p", "l", "e", " ", "M", "2">>]

EnvMacNoGL ==
    [ua |-> <<"(", "M", "a", "c", "i", "n", "t", "o", "s", "h", ";", " ", "I", "n", "t", "e", "l", " ", "M", "a", "c", " ", "O", "S", " ", "X", " ", "1", "0", "_", "1", "5", ")">>,
     platform |-> <<"M", "a", "c", "I", "n", "t", "e", "l">>,
     dpr |-> 1, width |-> 1920, height |-> 1080, maxTouchPoints |-> 0,
     renderer |-> <<"throws">>]

EnvOther ==
    [ua |-> <<"c", "u", "r", "l", "/", "8", ".", "4">>,
     platform |-> <<>>,
     dpr |-> 1, width |-> 800, height |-> 600, maxTouchPoints |-> 0,
     renderer |-> <<"null">>]

Envs == {EnvSamsung, EnvMacM2, EnvMacNoGL, EnvOther}

\* part_000 and part_001 read no environment signal.
EnvsRead(v) == IF HasRateLimit(v) THEN {EnvOther} ELSE Envs

-----------------------------------------------------------------------------
(* State: the component's useState cells, the persisted list, the clock,   *)
(* and the fetch calls that have not settled.                              *)

\* ret holds the result of the last direct call of a pure function; in the
\* component it holds, right after a validation pass, the FormErrors that
\* the pass's setErrors(e) replaced, and NoCall after any other event.
NoCall == [op |-> "none"]

EmptyForm == [name |-> <<>>, email |-> <<>>, message |-> <<>>, phone |-> <<>>]

\* other holds the component state of a second mounted instance (another tab
\* of the same origin): its useState cells and its fetch calls.  A freshly
\* mounted instance:
Mounted ==
    [formData |-> EmptyForm, agree |-> FALSE, errors |-> EmptyMap,
     isSubmitting |-> FALSE, submitted |-> FALSE, calls |-> <<>>,
     lastOp |-> "idle"]

Init ==
    /\ variant \in Variants
    /\ formData = EmptyForm
    /\ agree = FALSE
    /\ errors = EmptyMap
    /\ isSubmitting = FALSE
    /\ submitted = FALSE
    /\ store = <<>>
    /\ now = 0
    /\ calls = <<>>
    /\ lastOp = "idle"
    /\ ret = NoCall
    /\ other = Mounted

\* The form is rendered unless the success view replaces it.
FormShown == ~submitted

\* a submit button that is never disabled by isSubmitting
SubmitEnabledWhileSubmitting ==
    /\ FormShown
    /\ (variant = "consent" => agree)

\* <button type="submit" disabled={isSubmitting}> ; consent variant:
\* disabled={isSubmitting || !agree}
SubmitEnabled ==
    /\ FormShown
    /\ ~isSubmitting
    /\ (variant = "consent" => agree)

sanitize(v, field, value) ==
    CASE field = "email" -> sanitizeEmail(value)
      [] field = "phone" -> sanitizePhone(v, value)
      [] OTHER -> sanitizeText(v, value)

\* if (errors[field]) setErrors((e) => ({ ...e, [field]: undefined }))
\* (part_000, part_001); the other variants leave the errors alone.
ClearFieldError(v, e, field) ==
    IF HasRateLimit(v) /\ field \in DOMAIN e /\ e[field] # "undefined"
    THEN Put(e, field, "undefined")
    ELSE e

handleChange(field, value) ==
    /\ FormShown
    /\ formData' = [formData EXCEPT ![field] = sanitize(variant, field, value)]
    /\ errors' = ClearFieldError(variant, errors, field)
    /\ lastOp' = "idle"
    /\ ret' = NoCall
    /\ UNCHANGED <<other, variant, agree, isSubmitting, submitted, store, now, calls>>

\* onChange={(e) => setAgree(e.target.checked)}
setAgree ==
    /\ variant = "consent"
    /\ FormShown
    /\ agree' = ~agree
    /\ lastOp' = "idle"
    /\ ret' = NoCall
    /\ UNCHANGED <<other, variant, formData, errors, isSubmitting, submitted, store,
                   now, calls>>

\* handleSubmit whose validateForm merges into the previous errors:
\* setErrors((prev) => ({ ...prev, ...e }))
handleSubmitMergingErrors(env) ==
    /\ SubmitEnabled
    /\ Len(store) < MaxStore
    /\ LET e == validateForm(variant, formData, agree, store, now)
       IN  /\ errors' = [k \in DOMAIN errors \cup DOMAIN e |->
                            IF k \in DOMAIN e THEN e[k] ELSE errors[k]]
           /\ IF IsEmptyMap(e)
              THEN /\ isSubmitting' = TRUE
                   /\ calls' = Append(calls, buildPayload(variant, formData, env))
                   /\ lastOp' = "sent"
              ELSE /\ UNCHANGED <<isSubmitting, calls>>
                   /\ lastOp' = "rejected"
    /\ ret' = [op |-> "validateForm", replaced |-> errors]
    /\ UNCHANGED <<other, variant, formData, agree, submitted, store, now>>

\* handleSubmit that ignores the result of validateForm()
handleSubmitSkipsValidation(env) ==
    /\ SubmitEnabled
    /\ Len(store) < MaxStore
    /\ errors' = validateForm(variant, formData, agree, store, now)
    /\ isSubmitting' = TRUE
    /\ calls' = Append(calls, buildPayload(variant, formData, env))
    /\ lastOp' = "sent"
    /\ ret' = [op |-> "validateForm", replaced |-> errors]
    /\ UNCHANGED <<other, variant, formData, agree, submitted, store, now>>

\* handleSubmit up to the await: validateForm, then the fetch is issued.
handleSubmit(env) ==
    /\ SubmitEnabled
    /\ Len(store) < MaxStore
    /\ LET e == validateForm(variant, formData, agree, store, now)
       IN  /\ errors' = e
           /\ IF IsEmptyMap(e)
              THEN /\ isSubmitting' = TRUE
                   /\ calls' = Append(calls, buildPayload(variant, formData, env))
                   /\ lastOp' = "sent"
              ELSE /\ UNCHANGED <<isSubmitting, calls>>
                   /\ lastOp' = "rejected"
    /\ ret' = [op |-> "validateForm", replaced |-> errors]
    /\ UNCHANGED <<other, variant, formData, agree, submitted, store, now>>

RemoveAt(seq, i) == SubSeq(seq, 1, i - 1) \o SubSeq(seq, i + 1, Len(seq))

\* respondOK without the setFormData / setAgree calls of the success branch
respondOKKeepsForm(i) ==
    /\ i \in 1..Len(calls)
    /\ calls' = RemoveAt(calls, i)
    /\ store' = IF HasRateLimit(variant) THEN recordSubmit(store, now) ELSE store
    /\ submitted' = TRUE
    /\ isSubmitting' = FALSE
    /\ lastOp' = "ok"
    /\ ret' = NoCall
    /\ UNCHANGED <<other, variant, formData, agree, errors, now>>

\* (await res.text()) === "OK" and, where there is one, recordSubmit() returns
respondOK(i) ==
    /\ i \in 1..Len(calls)
    /\ calls' = RemoveAt(calls, i)
    /\ store' = IF HasRateLimit(variant) THEN recordSubmit(store, now) ELSE store
    /\ submitted' = TRUE
    /\ formData' = EmptyForm
    /\ agree' = IF variant = "consent" THEN FALSE ELSE agree
    /\ isSubmitting' = FALSE
    /\ lastOp' = "ok"
    /\ ret' = NoCall
    /\ UNCHANGED <<other, variant, errors, now>>

\* (await res.text()) === "OK" but localStorage.setItem throws inside
\* recordSubmit(): the catch block runs.
respondOKRecordThrows(i) ==
    /\ HasRateLimit(variant)
    /\ i \in 1..Len(calls)
    /\ calls' = RemoveAt(calls, i)
    /\ errors' = Put(EmptyMap, "submit", "t.formSendError")
    /\ isSubmitting' = FALSE
    /\ lastOp' = "recordThrew"
    /\ ret' = NoCall
    /\ UNCHANGED <<other, variant, formData, agree, submitted, store, now>>

\* respondFail that also runs the success branch's setFormData / setAgree
respondFailClearsForm(i, outcome) ==
    /\ i \in 1..Len(calls)
    /\ calls' = RemoveAt(calls, i)
    /\ errors' = Put(EmptyMap, "submit", "t.formSendError")
    /\ formData' = EmptyForm
    /\ agree' = FALSE
    /\ isSubmitting' = FALSE
    /\ lastOp' = outcome
    /\ ret' = NoCall
    /\ UNCHANGED <<other, variant, submitted, store, now>>

\* respondFail with recordSubmit() called on the failure path as well
respondFailRecording(i, outcome) ==
    /\ i \in 1..Len(calls)
    /\ calls' = RemoveAt(calls, i)
    /\ store' = IF HasRateLimit(variant) THEN recordSubmit(store, now) ELSE store
    /\ errors' = Put(EmptyMap, "submit", "t.formSendError")
    /\ isSubmitting' = FALSE
    /\ lastOp' = outcome
    /\ ret' = NoCall
    /\ UNCHANGED <<other, variant, formData, agree, submitted, now>>

\* respondFail that issues the failed request again from its catch block
respondFailRetrying(i, outcome) ==
    /\ i \in 1..Len(calls)
    /\ calls' = Append(RemoveAt(calls, i), calls[i])
    /\ errors' = Put(EmptyMap, "submit", "t.formSendError")
    /\ lastOp' = outcome
    /\ ret' = NoCall
    /\ UNCHANGED <<other, variant, formData, agree, isSubmitting, submitted,
                   store, now>>

\* respondFail without the finally block: isSubmitting is never cleared
respondFailNoFinally(i, outcome) ==
    /\ i \in 1..Len(calls)
    /\ calls' = RemoveAt(calls, i)
    /\ errors' = Put(EmptyMap, "submit", "t.formSendError")
    /\ lastOp' = outcome
    /\ ret' = NoCall
    /\ UNCHANGED <<other, variant, formData, agree, isSubmitting, submitted,
                   store, now>>

\* any other body ("other"), or fetch / res.text() rejects ("reject")
respondFail(i, outcome) ==
    /\ i \in 1..Len(calls)
    /\ calls' = RemoveAt(calls, i)
    /\ errors' = Put(EmptyMap, "submit", "t.formSendError")
    /\ isSubmitting' = FALSE
    /\ lastOp' = outcome
    /\ ret' = NoCall
    /\ UNCHANGED <<other, variant, formData, agree, submitted, store, now>>

\* onClick={() => setSubmitted(false)} in the success view
reset ==
    /\ submitted
    /\ submitted' = FALSE
    /\ lastOp' = "idle"
    /\ ret' = NoCall
    /\ UNCHANGED <<other, variant, formData, agree, errors, isSubmitting, store, now,
                   calls>>

\* Date.now() moves on.
tick ==
    /\ now < MaxTicks * TickMs
    /\ now' = now + TickMs
    /\ lastOp' = "idle"
    /\ ret' = NoCall
    /\ UNCHANGED <<other, variant, formData, agree, errors, isSubmitting, submitted,
                   store, calls>>

Next ==
    \/ \E field \in Fields : \E value \in RawInputs(field) : handleChange(field, value)
    \/ setAgree
    \/ \E env \in EnvsRead(variant) : handleSubmit(env)
    \/ \E i \in 1..Len(calls) : respondOK(i)
    \/ \E i \in 1..Len(calls) : respondOKRecordThrows(i)
    \/ \E i \in 1..Len(calls) : \E outcome \in {"other", "reject"} : respondFail(i, outcome)
    \/ reset
    \/ tick

Spec == Init /\ [][Next]_vars

-----------------------------------------------------------------------------
(* The rate limiter on its own: isRateLimited and recordSubmit called      *)
(* directly on persisted lists of every shape an earlier session can have  *)
(* left: non-decreasing timestamps on a half-window grid, none after now.  *)

\* Grid points 0 .. RLSlots - 1, half a window apart.
RLSlots == 4

\* Timestamps stored per grid point, at most.
RLPerSlot == 5

HalfWindow == WindowMs \div 2

\* n copies of x
Repeat(x, n) == [i \in 1..n |-> x]

\* The list holding counts[k] timestamps at grid point k, in time order.
RECURSIVE ListOf(_, _)
ListOf(counts, k) ==
    IF k >= RLSlots THEN <<>>
    ELSE Repeat(k * HalfWindow, counts[k]) \o ListOf(counts, k + 1)

InitRL ==
    /\ variant \in {"part_000", "part_001"}
    /\ \E counts \in [0..(RLSlots - 1) -> 0..RLPerSlot] :
          store = ListOf(counts, 0)
    /\ \E k \in 0..(RLSlots - 1) : now = k * HalfWindow
    /\ \A i \in 1..Len(store) : store[i] <= now
    /\ formData = EmptyForm
    /\ agree = FALSE
    /\ errors = EmptyMap
    /\ isSubmitting = FALSE
    /\ submitted = FALSE
    /\ calls = <<>>
    /\ lastOp = "idle"
    /\ ret = NoCall
    /\ other = Mounted

callIsRateLimited ==
    /\ ret' = [op |-> "isRateLimited", val |-> isRateLimited(variant, store, now)]
    /\ UNCHANGED <<other, variant, formData, agree, errors, isSubmitting, submitted,
                   store, now, calls, lastOp>>

callRecordSubmit ==
    /\ Len(store) < RLSlots * RLPerSlot
    /\ store' = recordSubmit(store, now)
    /\ ret' = [op |-> "recordSubmit"]
    /\ UNCHANGED <<other, variant, formData, agree, errors, isSubmitting, submitted,
                   now, calls, lastOp>>

clockRL ==
    /\ now < (RLSlots - 1) * HalfWindow
    /\ now' = now + HalfWindow
    /\ ret' = [op |-> "clock"]
    /\ UNCHANGED <<other, variant, formData, agree, errors, isSubmitting, submitted,
                   store, calls, lastOp>>

NextRL == callIsRateLimited \/ callRecordSubmit \/ clockRL

SpecRL == InitRL /\ [][NextRL]_vars

-----------------------------------------------------------------------------
(* Two mounted instances (tabs) of one origin.  Each has its own component *)
(* state; both read and write the same localStorage list.  The instance    *)
(* whose handlers run is the one in the component variables, the instance  *)
(* in the background is parked in other.                                   *)

InitTabs ==
    /\ variant \in {"part_000", "part_001"}
    /\ \E n \in 0..(RateLimit - 1) : store = Repeat(0, n)
    /\ now = 0
    /\ formData = EmptyForm
    /\ agree = FALSE
    /\ errors = EmptyMap
    /\ isSubmitting = FALSE
    /\ submitted = FALSE
    /\ calls = <<>>
    /\ lastOp = "idle"
    /\ ret = NoCall
    /\ other = Mounted

\* The event loop of the other tab gets the next event.
switchTab ==
    /\ other' = [formData |-> formData, agree |-> agree, errors |-> errors,
                 isSubmitting |-> isSubmitting, submitted |-> submitted,
                 calls |-> calls, lastOp |-> lastOp]
    /\ formData' = other.formData
    /\ agree' = other.agree
    /\ errors' = other.errors
    /\ isSubmitting' = other.isSubmitting
    /\ submitted' = other.submitted
    /\ calls' = other.calls
    /\ lastOp' = other.lastOp
    /\ ret' = NoCall
    /\ UNCHANGED <<variant, store, now>>

NextTabs ==
    \/ \E field \in {"name", "message"} : \E value \in RawInputs(field) : handleChange(field, value)
    \/ \E env \in EnvsRead(variant) : handleSubmit(env)
    \/ \E i \in 1..Len(calls) : respondOK(i)
    \/ \E i \in 1..Len(calls) : respondOKRecordThrows(i)
    \/ \E i \in 1..Len(calls) : \E outcome \in {"other", "reject"} : respondFail(i, outcome)
    \/ reset
    \/ tick
    \/ switchTab

SpecTabs == InitTabs /\ [][NextTabs]_vars

-----------------------------------------------------------------------------
(* The pure functions on their own: sanitizers, formatPhone and one         *)
(* validation pass, applied to raw strings and to each other's results.    *)

\* Raw strings of every shape up to MaxRawLen characters over RawAlphabet.
MaxRawLen == 3

RawAlphabet == {"a", "<", " ", "1", "+", "@", "."}

\* "99123456789"
ElevenDigits == <<"9", "9", "1", "2", "3", "4", "5", "6", "7", "8", "9">>

\* Longer raw strings: the digit strings "", "9", "99", ... "99123456789",
\* pasted phone numbers, e-mail addresses, and runs of one letter around the
\* length limits of the validators.
RawSamples ==
    {Slice(ElevenDigits, 0, n) : n \in 0..Len(ElevenDigits)}
    \cup PhoneInputs \cup EmailInputs
    \cup {<<"+", "1", "2", "3", "4", "5", "6", "7", "8", "9">>,
          <<"a", "@", "b", ".", "c", "o">>,
          <<"a", "@", "@", "b", ".", "c", "o">>,
          <<"a", "@", "b", "@", "c", ".", "c", "o">>,
          <<"@", "b", ".", "c", "o">>,
          <<"a", "@", ".", "c", "o">>,
          <<"a", "@", "b", ".">>,
          <<"a", ".", "b", "@", "c">>,
          <<"a", "@", "b", ".", "c", ".", "d">>,
          <<"a", " ", "b", "@", "c", ".", "d">>,
          <<"<", "a", ">", ";", "b", "=", "<">>}
    \cup {Repeat("a", n) : n \in {4, 5, 100, 101, 500, 501, 1000, 1001}}

RawStrings == UNION {[1..n -> RawAlphabet] : n \in 0..MaxRawLen} \cup RawSamples

InitFn ==
    /\ variant \in Variants
    /\ \E x \in RawStrings : ret = [op |-> "input", val |-> x]
    /\ formData = EmptyForm
    /\ agree = FALSE
    /\ errors = EmptyMap
    /\ isSubmitting = FALSE
    /\ submitted = FALSE
    /\ store = <<>>
    /\ now = 0
    /\ calls = <<>>
    /\ lastOp = "idle"
    /\ other = Mounted

\* ret.val is a string (not the FormErrors of a validation pass).
StringResult == ret.op \in {"input", "sanitize", "formatPhone"}

\* The sanitizer handleChange applies to the field, called on ret.val.
callSanitize(field) ==
    /\ StringResult
    /\ ret' = [op |-> "sanitize", field |-> field, arg |-> ret.val,
               val |-> sanitize(variant, field, ret.val)]
    /\ UNCHANGED <<other, variant, formData, agree, errors, isSubmitting,
                   submitted, store, now, calls, lastOp>>

\* value={formatPhone(formData.phone || "")} ; part_001 has no formatter.
callFormatPhone ==
    /\ StringResult
    /\ variant # "part_001"
    /\ ret' = [op |-> "formatPhone", arg |-> ret.val, val |-> formatPhone(ret.val)]
    /\ UNCHANGED <<other, variant, formData, agree, errors, isSubmitting,
                   submitted, store, now, calls, lastOp>>

\* validateForm over a form whose one field holds the sanitized value in
\* ret.val, with consent given and an empty list.
callValidateForm ==
    /\ ret.op = "sanitize"
    /\ ret' = [op |-> "validateForm", field |-> ret.field, arg |-> ret.val,
               val |-> validateForm(variant,
                                    [EmptyForm EXCEPT ![ret.field] = ret.val],
                                    TRUE, store, now)]
    /\ UNCHANGED <<other, variant, formData, agree, errors, isSubmitting,
                   submitted, store, now, calls, lastOp>>

NextFn ==
    \/ \E field \in Fields : callSanitize(field)
    \/ callFormatPhone
    \/ callValidateForm

SpecFn == InitFn /\ [][NextFn]_vars

-----------------------------------------------------------------------------
(* getDeviceModel on its own, over the environments a browser can report.  *)

\* "(iPhone; CPU iPhone OS 17_0) Mobile"
UA_iPhone ==
    <<"(", "i", "P", "h", "o", "n", "e", ";", " ", "C", "P", "U", " ", "i", "P", "h", "o", "n", "e", " ", "O", "S", " ", "1", "7", "_", "0", ")", " ", "M", "o", "b", "i", "l", "e">>

\* "(iPad; CPU OS 17_0) Mobile"
UA_iPad ==
    <<"(", "i", "P", "a", "d", ";", " ", "C", "P", "U", " ", "O", "S", " ", "1", "7", "_", "0", ")", " ", "M", "o", "b", "i", "l", "e">>

\* "(Windows NT 10.0; Win64)"
UA_Windows ==
    <<"(", "W", "i", "n", "d", "o", "w", "s", " ", "N", "T", " ", "1", "0", ".", "0", ";", " ", "W", "i", "n", "6", "4", ")">>

\* "(X11; Linux x86_64)"
UA_Linux ==
    <<"(", "X", "1", "1", ";", " ", "L", "i", "n", "u", "x", " ", "x", "8", "6", "_", "6", "4", ")">>

\* "(Linux; Android 10; K) Mobile"
UA_AndroidK ==
    <<"(", "L", "i", "n", "u", "x", ";", " ", "A", "n", "d", "r", "o", "i", "d", " ", "1", "0", ";", " ", "K", ")", " ", "M", "o", "b", "i", "l", "e">>

\* "(Android 13; Build) Mobile"
UA_AndroidBare ==
    <<"(", "A", "n", "d", "r", "o", "i", "d", " ", "1", "3", ";", " ", "B", "u", "i", "l", "d", ")", " ", "M", "o", "b", "i", "l", "e">>

\* "Android"
UA_AndroidNoSep ==
    <<"A", "n", "d", "r", "o", "i", "d">>

DevUserAgents ==
    {EnvSamsung.ua, EnvMacM2.ua, EnvOther.ua, UA_iPhone, UA_iPad, UA_Windows,
     UA_Linux, UA_AndroidK, UA_AndroidBare, UA_AndroidNoSep}

\* navigator.platform: "MacIntel", "Linux armv8l", ""
DevPlatforms == {EnvMacM2.platform, EnvSamsung.platform, <<>>}

\* screen.width, screen.height
DevScreens == {<<1280, 832>>, <<430, 932>>, <<800, 600>>}

\* UNMASKED_RENDERER_WEBGL: none, reading it throws, "Apple M2", "Intel"
DevRenderers ==
    {<<"null">>, <<"throws">>, EnvMacM2.renderer, <<"I", "n", "t", "e", "l">>}

DevEnvs ==
    Envs \cup
    {[ua |-> u, platform |-> p, dpr |-> d, width |-> s[1], height |-> s[2],
      maxTouchPoints |-> m, renderer |-> r] :
        u \in DevUserAgents, p \in DevPlatforms, d \in 1..3, s \in DevScreens,
        m \in {0, 5}, r \in DevRenderers}

InitDev ==
    /\ variant \in {"first", "consent"}
    /\ \E env \in DevEnvs : ret = [op |-> "env", env |-> env]
    /\ formData = EmptyForm
    /\ agree = FALSE
    /\ errors = EmptyMap
    /\ isSubmitting = FALSE
    /\ submitted = FALSE
    /\ store = <<>>
    /\ now = 0
    /\ calls = <<>>
    /\ lastOp = "idle"
    /\ other = Mounted

callGetDeviceModel ==
    /\ ret.op = "env"
    /\ ret' = [op |-> "getDeviceModel", env |-> ret.env,
               val |-> getDeviceModel(variant, ret.env)]
    /\ UNCHANGED <<other, variant, formData, agree, errors, isSubmitting,
                   submitted, store, now, calls, lastOp>>

NextDev == callGetDeviceModel

SpecDev == InitDev /\ [][NextDev]_vars

-----------------------------------------------------------------------------
(* The component under the assumption that the transport settles every      *)
(* call: a call in flight eventually resolves or rejects.                  *)

\* The awaited fetch / res.text() settles, one way or another.
Settle ==
    \/ \E i \in 1..Len(calls) : respondOK(i)
    \/ \E i \in 1..Len(calls) : respondOKRecordThrows(i)
    \/ \E i \in 1..Len(calls) : \E outcome \in {"other", "reject"} : respondFail(i, outcome)

SpecLive == Init /\ [][Next]_vars /\ WF_vars(Settle)

-----------------------------------------------------------------------------
(* Typing into a free-text field: the input is controlled by the stored     *)
(* value (value={formData.name}), so each keystroke hands the change        *)
(* handler the stored value with one character appended.  ret records the   *)
(* field typed into and every character typed so far.                       *)

\* Keystrokes typed, at most.
MaxTyped == 3

\* The keys pressed: letters, the space bar, a denylisted character.
TypedKeys == {"a", "b", " ", "<"}

InitType ==
    /\ variant \in Variants
    /\ \E field \in {"name", "message"} :
          ret = [op |-> "typed", field |-> field, whole |-> <<>>]
    /\ formData = EmptyForm
    /\ agree = FALSE
    /\ errors = EmptyMap
    /\ isSubmitting = FALSE
    /\ submitted = FALSE
    /\ store = <<>>
    /\ now = 0
    /\ calls = <<>>
    /\ lastOp = "idle"
    /\ other = Mounted

\* onChange={(e) => handleChange("name", e.target.value)} after one key
keystroke(c) ==
    /\ FormShown
    /\ Len(ret.whole) < MaxTyped
    /\ formData' = [formData EXCEPT
                      ![ret.field] = sanitize(variant, ret.field,
                                              formData[ret.field] \o <<c>>)]
    /\ errors' = ClearFieldError(variant, errors, ret.field)
    /\ lastOp' = "idle"
    /\ ret' = [ret EXCEPT !.whole = ret.whole \o <<c>>]
    /\ UNCHANGED <<other, variant, agree, isSubmitting, submitted, store, now,
                   calls>>

NextType == \E c \in TypedKeys : keystroke(c)

SpecType == InitType /\ [][NextType]_vars

-----------------------------------------------------------------------------
(* Properties.                                                             *)

\* C1: in the variants that have the rate limiter, a submit made while
\* isRateLimited() is true (5 or more stored timestamps inside the window)
\* ends back in Editing with the submit error and without a network call,
\* whatever the form holds.  (handleSubmit leaves store and now as they were,
\* so the state after the submit shows what isRateLimited() returned.)
C1_RateLimitedSubmitBlocked ==
    (/\ lastOp \in {"sent", "rejected"}
     /\ HasRateLimit(variant)
     /\ isRateLimited(variant, store, now))
    => /\ lastOp = "rejected"
       /\ calls = <<>>
       /\ ~isSubmitting
       /\ ~submitted
       /\ "submit" \in DOMAIN errors
       /\ errors["submit"] = "t.formSendError"

\* C1 witness: a form that passes every field rule is rejected by the rate
\* limit alone.
C1_Witness ==
    /\ lastOp = "rejected"
    /\ HasRateLimit(variant)
    /\ isRateLimited(variant, store, now)
    /\ DOMAIN errors = {"submit"}
    /\ calls = <<>>

\* C2: the persisted list changes only in the step from Submitting to Success
\* (the response body was "OK"); every other step leaves it as it was.
C2_StoreWrittenOnlyOnSuccess ==
    [][store' # store =>
          /\ lastOp' = "ok"
          /\ isSubmitting /\ ~isSubmitting'
          /\ ~submitted /\ submitted'
          /\ Len(calls) = Len(calls') + 1
          /\ store' = Append(store, now)]_vars

\* C2 witness: the step to Success has written the first timestamp.
C2_Witness ==
    /\ lastOp = "ok"
    /\ submitted
    /\ Len(store) = 1

\* C3: at most one network call is outstanding; while one is, isSubmitting is
\* true and the submit trigger is disabled.
C3_OneCallInFlight ==
    /\ Len(calls) <= 1
    /\ (calls # <<>>) = isSubmitting
    /\ isSubmitting => ~SubmitEnabled

\* C3 witness: a call is in flight while the form on screen would pass
\* validation again, so only the in-flight guard holds a second call back.
C3_Witness ==
    /\ Len(calls) = 1
    /\ isSubmitting
    /\ FormShown
    /\ IsEmptyMap(validateForm(variant, formData, agree, store, now))

\* C4: when the call resolves with the body "OK" the machine is in Success,
\* a rate-limiter entry for the current time has been recorded, every form
\* field is empty and the consent flag is false.
C4_OkRecordsAndClears ==
    lastOp \in {"ok", "recordThrew"}
    => /\ submitted
       /\ ~isSubmitting
       /\ store # <<>>
       /\ store[Len(store)] = now
       /\ formData = EmptyForm
       /\ ~agree

\* C5: when the call resolves with another body or rejects, the machine is
\* back in Editing with exactly the submit error; the form, the consent flag
\* and the persisted list are as they were.
C5_FailureKeepsForm ==
    [][lastOp' \in {"other", "reject"} =>
          /\ ~submitted'
          /\ ~isSubmitting'
          /\ DOMAIN errors' = {"submit"}
          /\ errors'["submit"] = "t.formSendError"
          /\ formData' = formData
          /\ agree' = agree
          /\ store' = store]_vars

\* C5 witness: a rejected call has left a filled form on screen with the
\* submit error, and nothing in the persisted list.
C5_Witness ==
    /\ lastOp = "reject"
    /\ formData.name # <<>>
    /\ formData.message # <<>>
    /\ DOMAIN errors = {"submit"}
    /\ store = <<>>
    /\ ~submitted

\* The keys of the rules that fail on the form shown, rule by rule.
FailingKeys ==
    {k \in {"name"} : NameInvalid(variant, formData)}
    \cup {k \in {"message"} : MessageInvalid(variant, formData)}
    \cup {k \in {"email"} :
            EmailInvalid(formData) \/ (variant = "consent" /\ NoContact(formData))}
    \cup {k \in {"phone"} :
            PhoneInvalid(variant, formData)
              \/ (variant = "consent" /\ NoContact(formData))}
    \cup {k \in {"submit"} :
            HasRateLimit(variant) /\ isRateLimited(variant, store, now)}
    \cup {k \in {"agree"} : variant = "consent" /\ ~agree}

\* C6: a submit issues a network call exactly when its validation pass
\* produced an empty error map, and the map of a pass holds the key of every
\* rule that fails.  (handleSubmit leaves the form, the consent flag, the
\* list and the clock as they were.)
C6_CallIffNoErrors ==
    /\ lastOp = "sent" =>
          /\ IsEmptyMap(errors)
          /\ FailingKeys = {}
          /\ Len(calls) = 1
          /\ isSubmitting
    /\ lastOp = "rejected" =>
          /\ DOMAIN errors = FailingKeys
          /\ FailingKeys # {}
          /\ calls = <<>>
          /\ ~isSubmitting

\* C6 witness: name too short, phone malformed and rate limit reached, all
\* three keys in the map of one pass.
C6_Witness ==
    /\ lastOp = "rejected"
    /\ {"name", "phone", "submit"} \subseteq DOMAIN errors
    /\ calls = <<>>

\* C7: in the consent variant no network call is issued while the consent
\* flag is false: the submit trigger is disabled then, and a validation pass
\* made then carries the consent error.
C7_NoCallWithoutConsent ==
    variant = "consent" =>
       /\ lastOp = "sent" => agree
       /\ ~agree => ~SubmitEnabled
       /\ ~agree =>
             /\ "agree" \in DOMAIN validateForm(variant, formData, agree, store, now)
             /\ validateForm(variant, formData, agree, store, now)["agree"]
                   = "t.formPolicyError"

\* C7 witness: the consent variant with every field rule satisfied and the
\* consent flag false: only the consent gate stands between the form and
\* the network.
C7_Witness ==
    /\ variant = "consent"
    /\ ~agree
    /\ FormShown
    /\ ~isSubmitting
    /\ DOMAIN validateForm(variant, formData, agree, store, now) = {"agree"}

\* C8: in the dual-contact (consent) variant a submit with email and phone
\* both empty puts the same contact error on the email key and on the phone
\* key and issues no call; with one of the two filled in, the contact error
\* is on neither key.
C8_DualContact ==
    (variant = "consent" /\ lastOp \in {"sent", "rejected"}) =>
       IF formData.email = <<>> /\ formData.phone = <<>>
       THEN /\ lastOp = "rejected"
            /\ calls = <<>>
            /\ {"email", "phone"} \subseteq DOMAIN errors
            /\ errors["email"] = "contactError"
            /\ errors["phone"] = errors["email"]
       ELSE \A k \in {"email", "phone"} \cap DOMAIN errors :
               errors[k] # "contactError"

\* C8 witness: valid name and message, consent given, no contact method:
\* the pass flags exactly email and phone.
C8_Witness ==
    /\ variant = "consent"
    /\ lastOp = "rejected"
    /\ formData.email = <<>>
    /\ formData.phone = <<>>
    /\ DOMAIN errors = {"email", "phone"}

\* The number of stored timestamps inside the trailing 10-minute window:
\* now - t below 10 minutes, and in part_001 also now - t of exactly 10 minutes.
InWindowCount(v, list, t) ==
    Cardinality({i \in 1..Len(list) :
                    \/ t - list[i] < 10 * 60 * 1000
                    \/ v = "part_001" /\ t - list[i] = 10 * 60 * 1000})

\* C9: isRateLimited() is true exactly when at least 5 stored timestamps are
\* inside the trailing 10-minute window: five timestamps all within the last
\* 10 minutes give true, timestamps all older than 10 minutes give false, and
\* four in-window timestamps give false however many expired ones are stored.
C9_LimitedIffFiveInWindow ==
    ret.op = "isRateLimited" =>
       /\ ret.val = (InWindowCount(variant, store, now) >= 5)
       /\ (/\ Len(store) = 5
           /\ \A i \in 1..Len(store) : now - store[i] < 10 * 60 * 1000)
          => ret.val
       /\ (\A i \in 1..Len(store) : now - store[i] > 10 * 60 * 1000)
          => ~ret.val
       /\ (Cardinality({i \in 1..Len(store) :
                           now - store[i] <= 10 * 60 * 1000}) = 4)
          => ~ret.val

\* C9 witness: four timestamps inside the window and five or more expired
\* ones: the call returned false.
C9_Witness ==
    /\ ret.op = "isRateLimited"
    /\ ~ret.val
    /\ InWindowCount(variant, store, now) = 4
    /\ Len(store) >= 9

\* C10: recordSubmit() appends the current time, and a call of
\* isRateLimited() right after it counts that entry: with exactly 4 stored
\* timestamps inside the window before the record, isRateLimited() is false
\* before it and true after it.
C10_RecordIsCounted ==
    [][(ret'.op = "recordSubmit" /\ InWindowCount(variant, store, now) = 4) =>
          /\ ~isRateLimited(variant, store, now)
          /\ now' = now
          /\ store' = Append(store, now)
          /\ isRateLimited(variant, store', now')
          /\ InWindowCount(variant, store', now') = 5]_vars

\* C10 witness: the list just after a record that took the count inside the
\* window from 4 to 5.
C10_Witness ==
    /\ ret.op = "recordSubmit"
    /\ store # <<>>
    /\ store[Len(store)] = now
    /\ InWindowCount(variant, SubSeq(store, 1, Len(store) - 1), now) = 4
    /\ ~isRateLimited(variant, SubSeq(store, 1, Len(store) - 1), now)
    /\ isRateLimited(variant, store, now)

\* C11: the rate limit is not atomic across tabs.  With two tabs on one
\* list, each tab's check-then-append admits one submission beyond the limit
\* of 5: a tab that passed isRateLimited() records its "OK" without checking
\* again, so the list holds up to 6 timestamps inside one window (and never
\* more with two tabs, each having one call in flight at most).
C11_TwoTabsExceedLimit ==
    /\ InWindowCount(variant, store, now) <= 5 + 1
    /\ (other.calls # <<>> /\ calls # <<>>) =>
          InWindowCount(variant, store, now) < 5

\* C11 witness: both tabs have submitted successfully and recorded, and the
\* list holds more than 5 timestamps inside the window.
C11_Witness ==
    /\ lastOp = "ok"
    /\ other.lastOp = "ok"
    /\ submitted
    /\ other.submitted
    /\ InWindowCount(variant, store, now) > 5

\* C12: in every reachable state the stored phone consists of decimal digits
\* only and has length at most 9, whatever raw values were applied to the
\* phone field.
C12_PhoneDigitsAtMostNine ==
    /\ Len(formData.phone) <= 9
    /\ \A k \in 1..Len(formData.phone) : formData.phone[k] \in Digit

\* C13: in every reachable state the stored name and message contain none
\* of the characters < > [ ] { } ' " \ / | ; : = and the stored email only
\* characters of [A-Za-z0-9_@.+-]; the name, email and message of every
\* payload handed to fetch satisfy the same.
C13_StoredAndSentAreSanitized ==
    LET FreeTextClean(x) ==
            \A k \in 1..Len(x) :
               x[k] \notin {"<", ">", "[", "]", "{", "}", "'", "\"", "\\", "/",
                            "|", ";", ":", "="}
        EmailClean(x) ==
            \A k \in 1..Len(x) :
               x[k] \in Letter \cup Digit \cup {"_", "@", ".", "+", "-"}
    IN  /\ FreeTextClean(formData.name)
        /\ FreeTextClean(formData.message)
        /\ EmailClean(formData.email)
        /\ \A i \in 1..Len(calls) :
              /\ FreeTextClean(calls[i]["name"])
              /\ FreeTextClean(calls[i]["message"])
              /\ EmailClean(calls[i]["email"])

\* C13 witness: a payload in flight whose name, message and email were
\* entered as "<ab ", " h=ello" and " a@b.co!".
C13_Witness ==
    /\ Len(calls) = 1
    /\ Len(calls[1]["name"]) >= 2
    /\ calls[1]["email"] = <<"a", "@", "b", ".", "c", "o">>
    /\ Len(calls[1]["message"]) >= 5
    /\ formData.name = calls[1]["name"]

\* C14: each sanitizer is idempotent: for every string x and every field
\* class (free text, email, phone), sanitizing the sanitized x gives the
\* sanitized x.
C14_SanitizersIdempotent ==
    ret.op = "sanitize" =>
       /\ ret.val = sanitize(variant, ret.field, ret.arg)
       /\ sanitize(variant, ret.field, sanitize(variant, ret.field, ret.arg))
             = sanitize(variant, ret.field, ret.arg)

\* C14 witness: a free-text sanitizer has removed two denylisted characters
\* from its argument.
C14_Witness ==
    /\ ret.op = "sanitize"
    /\ ret.field = "name"
    /\ Len(ret.arg) >= Len(ret.val) + 2
    /\ ret.val # <<>>
    /\ \E k \in 1..(Len(ret.arg) - 1) : ret.arg[k] = "<" /\ ret.arg[k + 1] = "<"

\* C15: format groups a digit string of length n as: n <= 2 unchanged;
\* 3..5 two digits, a space, the rest; 6..7 groups of 2, 3 and the rest;
\* 8 or 9 groups of 2, 3, 2 and the remaining 1 or 2 digits.  So
\* "991234567" gives "99 123 45 67", "99" gives "99", "9912" gives "99 12".
C15_FormatGroups ==
    (/\ ret.op = "formatPhone"
     /\ Len(ret.arg) <= 9
     /\ \A k \in 1..Len(ret.arg) : ret.arg[k] \in Digit)
    => LET d == ret.arg
           n == Len(ret.arg)
           sp == <<" ">>
       IN  /\ n <= 2 => ret.val = d
           /\ (3 <= n /\ n <= 5) =>
                 ret.val = SubSeq(d, 1, 2) \o sp \o SubSeq(d, 3, n)
           /\ (6 <= n /\ n <= 7) =>
                 ret.val = SubSeq(d, 1, 2) \o sp \o SubSeq(d, 3, 5) \o sp
                              \o SubSeq(d, 6, n)
           /\ (8 <= n /\ n <= 9) =>
                 ret.val = SubSeq(d, 1, 2) \o sp \o SubSeq(d, 3, 5) \o sp
                              \o SubSeq(d, 6, 7) \o sp \o SubSeq(d, 8, n)
           /\ d = <<"9", "9", "1", "2", "3", "4", "5", "6", "7">> =>
                 ret.val = <<"9", "9", " ", "1", "2", "3", " ", "4", "5", " ",
                             "6", "7">>
           /\ d = <<"9", "9">> => ret.val = <<"9", "9">>
           /\ d = <<"9", "9", "1", "2">> => ret.val = <<"9", "9", " ", "1", "2">>

\* C15 witness: the nine digits "991234567" have been formatted.
C15_Witness ==
    /\ ret.op = "formatPhone"
    /\ ret.arg = <<"9", "9", "1", "2", "3", "4", "5", "6", "7">>
    /\ Len(ret.val) = 12

\* C16: the validator accepts a name exactly when its length L satisfies
\* 1 < L <= 100, and a message exactly when 1 < L <= the configured maximum,
\* which is 500 or 1000: a message with 1 < L <= 500 is accepted, an
\* accepted message has 1 < L <= 1000.
C16_LengthBounds ==
    ret.op = "validateForm" =>
       LET L == Len(ret.arg)
       IN  /\ ret.field = "name" =>
                (("name" \notin DOMAIN ret.val) <=> (1 < L /\ L <= 100))
           /\ ret.field = "message" =>
                /\ ("message" \notin DOMAIN ret.val) => (1 < L /\ L <= 1000)
                /\ (1 < L /\ L <= 500) => ("message" \notin DOMAIN ret.val)

\* C17: the validator puts a format error on phone exactly when the stored
\* phone is non-empty and is not exactly 9 decimal digits: "123456789"
\* passes, "12345" fails, an empty phone gets no format error.
C17_PhoneNineDigits ==
    (ret.op = "validateForm" /\ ret.field = "phone") =>
       LET formatError ==
               /\ "phone" \in DOMAIN ret.val
               /\ ret.val["phone"] \in {"t.formTelephone", "t.errors.phone"}
           nineDigits ==
               /\ Len(ret.arg) = 9
               /\ \A k \in 1..Len(ret.arg) :
                     ret.arg[k] \in {"0", "1", "2", "3", "4", "5", "6", "7",
                                     "8", "9"}
       IN  /\ formatError <=> (ret.arg # <<>> /\ ~nineDigits)
           /\ ret.arg = <<"1", "2", "3", "4", "5", "6", "7", "8", "9">>
                 => ~formatError
           /\ ret.arg = <<"1", "2", "3", "4", "5">> => formatError
           /\ ret.arg = <<>> => ~formatError

\* C18: the validator puts a format error on email exactly when the stored
\* email is non-empty and does not have the shape local@domain.tld: exactly
\* one '@' with text before it, no whitespace, and a '.' after the '@' with
\* text between the two and text after it.  "a@b.co" passes, "a@b" fails.
C18_EmailShape ==
    (ret.op = "validateForm" /\ ret.field = "email") =>
       LET e == ret.arg
           formatError ==
               /\ "email" \in DOMAIN ret.val
               /\ ret.val["email"] \in {"t.formInputMessage", "t.errors.email"}
           ats == {k \in 1..Len(e) : e[k] = "@"}
           shape ==
               /\ Cardinality(ats) = 1
               /\ \A k \in 1..Len(e) : e[k] \notin {" ", "\t", "\n"}
               /\ \E at \in ats :
                     /\ at > 1
                     /\ \E dot \in (at + 2)..(Len(e) - 1) : e[dot] = "."
       IN  /\ formatError <=> (e # <<>> /\ ~shape)
           /\ e = <<"a", "@", "b", ".", "c", "o">> => ~formatError
           /\ e = <<"a", "@", "b">> => formatError

\* C18 witness: "a@b" has been validated and carries the format error.
C18_Witness ==
    /\ ret.op = "validateForm"
    /\ ret.field = "email"
    /\ ret.arg = <<"a", "@", "b">>
    /\ "email" \in DOMAIN ret.val

\* C19: editing a field that has a field-validation error removes that
\* field's error at once, before any new submit, and leaves the errors of
\* all other keys, `submit` included, as they were.
C19_EditClearsFieldError ==
    [][\A f \in {"name", "email", "message", "phone"} :
          (/\ lastOp' = "idle"
           /\ formData'[f] # formData[f]
           /\ f \in DOMAIN errors
           /\ errors[f] # "undefined")
          => /\ ~(f \in DOMAIN errors' /\ errors'[f] # "undefined")
             /\ \A k \in DOMAIN errors \ {f} :
                   k \in DOMAIN errors' /\ errors'[k] = errors[k]]_vars

\* C20: every network call is caused by one user submit event.  A step that
\* issues a call is a submit step, made with the trigger enabled, and issues
\* exactly one; the step that handles a failed call (another body, or a
\* transport failure) issues none and leaves no call outstanding, so the
\* calls never outnumber the submit events.
C20_NoAutomaticRetry ==
    [][/\ (calls' # calls /\ Len(calls') >= Len(calls)) =>
             /\ SubmitEnabled
             /\ \E env \in Envs : handleSubmit(env)
             /\ lastOp' = "sent"
             /\ Len(calls') = Len(calls) + 1
             /\ SubSeq(calls', 1, Len(calls)) = calls
       /\ lastOp' \in {"other", "reject"} =>
             /\ Len(calls') = Len(calls) - 1
             /\ calls' = <<>>
             /\ ~isSubmitting']_vars

\* C20 witness: a call has failed; the form on screen still passes
\* validation, the trigger is enabled again, and no call is outstanding.
C20_Witness ==
    /\ lastOp \in {"other", "reject"}
    /\ calls = <<>>
    /\ SubmitEnabled
    /\ IsEmptyMap(validateForm(variant, formData, agree, store, now))
    /\ DOMAIN errors = {"submit"}

\* C21: every payload handed to fetch carries the keys name, email and
\* message and a non-empty device label; it carries the key phone only when
\* the stored phone is non-empty, and then the value is +998 followed by the
\* stored 9 digits.
C21_PayloadShape ==
    /\ \A i \in 1..Len(calls) :
          /\ {"name", "email", "message", "device"} \subseteq DOMAIN calls[i]
          /\ calls[i]["device"] # <<>>
          /\ "phone" \in DOMAIN calls[i] =>
                /\ Len(calls[i]["phone"]) = 4 + 9
                /\ SubSeq(calls[i]["phone"], 1, 4) = <<"+", "9", "9", "8">>
                /\ \A k \in 5..Len(calls[i]["phone"]) :
                      calls[i]["phone"][k] \in Digit
    /\ lastOp = "sent" =>
          /\ ("phone" \in DOMAIN calls[Len(calls)]) = (formData.phone # <<>>)
          /\ formData.phone # <<>> =>
                calls[Len(calls)]["phone"] = <<"+", "9", "9", "8">> \o formData.phone

C23_ErrorsRecomputed ==
    ret.op = "validateForm" =>
       /\ lastOp \in {"sent", "rejected"}
       /\ DOMAIN errors = FailingKeys
       /\ \A k \in DOMAIN errors : errors[k] # "undefined"
       /\ \A k \in DOMAIN ret.replaced : k \notin FailingKeys => k \notin DOMAIN errors
       /\ ("submit" \in DOMAIN errors) =
             (HasRateLimit(variant) /\ isRateLimited(variant, store, now))

\* C23 witness: the pass replaced a map holding only the submit error of a
\* failed call by a map holding only the name error.
C23_Witness ==
    /\ ret.op = "validateForm"
    /\ DOMAIN ret.replaced = {"submit"}
    /\ DOMAIN errors = {"name"}
    /\ store = <<>>

\* C24: while the list holds 5 or more timestamps inside the window, no step
\* (edit, consent toggle, submit, reset) issues a network call, and only the
\* clock can end that; once fewer than 5 stored timestamps are inside the
\* window, a submit of a form that passes the field rules issues a call.
C24_LimitedUntilWindowPasses ==
    [][HasRateLimit(variant) =>
          /\ InWindowCount(variant, store, now) >= 5 =>
                /\ Len(calls') <= Len(calls)
                /\ lastOp' # "sent"
                /\ now' = now => InWindowCount(variant, store', now') >= 5
          /\ (/\ InWindowCount(variant, store, now) < 5
              /\ ret'.op = "validateForm"
              /\ FailingKeys \ {"submit"} = {})
             => /\ lastOp' = "sent"
                /\ Len(calls') = Len(calls) + 1]_vars

\* C24 witness: five timestamps are stored, the clock has passed their
\* expiry, and the submit of a valid form has issued a call.
C24_Witness ==
    /\ HasRateLimit(variant)
    /\ Len(store) >= 5
    /\ InWindowCount(variant, store, now) = 0
    /\ lastOp = "sent"
    /\ Len(calls) = 1

\* C25: if the network call eventually resolves or rejects, a machine in
\* Submitting eventually leaves it with isSubmitting false, in Success or in
\* Editing with a submit error; and only the settling of the call ends
\* Submitting (there is no timeout and no cancellation), so while the call
\* has not settled the machine stays in Submitting.
C25_SubmittingEnds ==
    /\ isSubmitting ~>
          (/\ ~isSubmitting
           /\ submitted \/ ("submit" \in DOMAIN errors /\ ~submitted))
    /\ [][isSubmitting =>
             /\ isSubmitting' \/ lastOp' \in {"ok", "recordThrew", "other", "reject"}
             /\ isSubmitting' => calls' = calls]_vars

\* C25 witness: the call has settled with a failure; the machine is in
\* Editing with the submit error.
C25_Witness ==
    /\ lastOp \in {"other", "reject", "recordThrew"}
    /\ ~isSubmitting
    /\ ~submitted
    /\ "submit" \in DOMAIN errors
    /\ calls = <<>>
    /\ now > 0

\* C26: in Success no submit can be triggered and no call is outstanding;
\* the reset is the only step out of Success, and it leads to Editing with
\* every form field empty, consent false and an empty error map, leaving the
\* persisted list as it was.
C26_ResetLeavesSuccess ==
    [][submitted =>
          /\ ~SubmitEnabled
          /\ calls = <<>> /\ calls' = <<>>
          /\ ret'.op # "validateForm"
          /\ store' = store
          /\ formData' = formData
          /\ ~submitted' =>
                /\ lastOp' = "idle"
                /\ now' = now
                /\ ~isSubmitting'
                /\ formData' = [name |-> <<>>, email |-> <<>>, message |-> <<>>,
                                phone |-> <<>>]
                /\ ~agree'
                /\ DOMAIN errors' = {}]_vars

\* C26 witness: back in Editing after the first success, with an empty form,
\* no errors, and the one recorded timestamp still in the list.
C26_Witness ==
    /\ ~submitted
    /\ lastOp = "idle"
    /\ formData = EmptyForm
    /\ ~agree
    /\ IsEmptyMap(errors)
    /\ Len(store) = 1
    /\ now = 0

\* C27: a response body of "OK" leads to Success with the form cleared even
\* when recording the rate-limiter entry fails (recordSubmit() throws); the
\* accepted submission is never reported as a submit error.
C27_OkDespiteRecordFailure ==
    lastOp \in {"ok", "recordThrew"} =>
       /\ submitted
       /\ formData = EmptyForm
       /\ "submit" \notin DOMAIN errors

\* C28: recordSubmit() rewrites the list as the previous list with the
\* current time appended as its last element; across every step no stored
\* timestamp is removed, changed or moved, and the length never decreases.
C28_ListAppendOnly ==
    [][/\ Len(store') >= Len(store)
       /\ \A i \in 1..Len(store) : store'[i] = store[i]
       /\ Len(store') <= Len(store) + 1
       /\ Len(store') = Len(store) + 1 => store'[Len(store')] = now]_vars

\* C28 witness: a timestamp recorded two windows ago is still first in the
\* list after a later record.
C28_Witness ==
    /\ Len(store) >= 2
    /\ store[Len(store)] = now
    /\ now - store[1] >= 2 * (10 * 60 * 1000)
    /\ lastOp = "ok"

\* C29: in one context with a non-decreasing clock, starting from an empty
\* list, any six recorded timestamps span at least 10 minutes: never more
\* than 5 successful submissions are recorded strictly within one 10-minute
\* window, although the check is made at submit time and the record at
\* response time.
C29_SixSpanWindow ==
    /\ \A i \in 1..Len(store) : \A j \in i..Len(store) : store[i] <= store[j]
    /\ \A i \in 1..Len(store) :
          (i + 5 <= Len(store)) => store[i + 5] - store[i] >= 10 * 60 * 1000

\* C29 witness: six timestamps are stored, the sixth recorded for a submit
\* that was checked one window after the first five.
C29_Witness ==
    /\ Len(store) = 6
    /\ store[5] = store[1]
    /\ store[6] > store[5]
    /\ lastOp = "ok"

\* C30: every payload handed to fetch is the snapshot of the form that has
\* just passed every validator rule of its variant (name and message length
\* bounds, phone empty or valid, email empty or well-formed, consent given),
\* and an edit made while the call is in flight leaves the payload as it was.
C30_PayloadIsValidatedSnapshot ==
    [][/\ (ret'.op = "validateForm" /\ Len(calls') > Len(calls)) =>
             LET p == calls'[Len(calls')]
             IN  /\ Len(calls') = Len(calls) + 1
                 /\ p["name"] = formData.name
                 /\ p["email"] = formData.email
                 /\ p["message"] = formData.message
                 /\ formData.phone # <<>> =>
                       /\ "phone" \in DOMAIN p
                       /\ p["phone"] \in {formData.phone,
                                          <<"+", "9", "9", "8">> \o formData.phone}
                 /\ formData.phone = <<>> =>
                       ("phone" \in DOMAIN p => p["phone"] = <<>>)
                 /\ FailingKeys = {}
                 /\ Len(p["name"]) > 1
                 /\ Len(p["message"]) > 1
                 /\ variant \in {"consent", "part_001"} =>
                       Len(p["name"]) <= 100 /\ Len(p["message"]) <= 1000
                 /\ p["email"] = <<>> \/ validateEmail(p["email"])
                 /\ variant # "part_001" =>
                       \/ formData.phone = <<>>
                       \/ /\ Len(formData.phone) = 9
                          /\ \A k \in 1..9 : formData.phone[k] \in Digit
                 /\ variant = "consent" => agree
                 /\ formData' = formData
       /\ (ret'.op # "validateForm" /\ isSubmitting /\ isSubmitting') =>
             calls' = calls]_vars

\* C30 witness: while the call is in flight the name field has been edited
\* to a value that fails validation; the payload still holds the validated
\* name.
C30_Witness ==
    /\ Len(calls) = 1
    /\ isSubmitting
    /\ Len(formData.name) < 2
    /\ Len(calls[1]["name"]) >= 2
    /\ lastOp = "idle"

\* C31: for a free-text field the stored value does not depend on how the
\* text was entered: typed key by key through the change handler, it is the
\* value the sanitizer gives for the whole typed string; typing "a b" stores
\* what sanitizing "a b" gives.
C31_TypedEqualsWhole ==
    ret.op = "typed" =>
       /\ formData[ret.field] = sanitizeText(variant, ret.whole)
       /\ ret.whole = <<"a", " ", "b">> =>
             formData[ret.field] = <<"a", " ", "b">>

====
